---- MODULE Spec2Model ----
(***************************************************************************)
(* Model of Singleton<T> (include/singleton.hpp) and of its test interface *)
(* SingletonTestApi<T> (include/singleton_test.hpp), for one type          *)
(* parameter T.                                                            *)
(*                                                                         *)
(* g_instance (the holder) is the pair m_pExtern / buffer, g_onceFlag is   *)
(* the std::once_flag driven by std::call_once.  Every facade call is cut  *)
(* into the memory accesses it performs, so that concurrent Get / TryGet   *)
(* calls interleave as they do on real threads.  Reset and Inject are      *)
(* test-only and are started only while no other call is in progress, as   *)
(* their documentation requires.                                           *)
(*                                                                         *)
(* The second part models the load-time variant of the holder,             *)
(* SingletonInstance<T, SingletonType::LOAD_TIME>, for several types, with *)
(* the registry that destroys their instances at unload time (SpecLT).     *)
(***************************************************************************)
EXTENDS Integers, FiniteSets, Sequences, TLC

(* ---------------------------- bounds ----------------------------------- *)
NThreads == 2
MaxOps == 4
MaxArg == 2
NumExt == 2
NTypes == 2
MaxLtOps == 4

(* --------------------------- constants --------------------------------- *)
NULLPTR == 0
LOCAL_INSTANCE_ID == 1
BufferAddr == 2

Threads == 1..NThreads
CtorArgs == 1..MaxArg
ExtPtrs == (BufferAddr + 1)..(BufferAddr + NumExt)

(* load-time variant: the singleton types, identified with their g_entry;  *)
(* the addresses operator new can return; the pointers Inject is called on *)
Types == 1..NTypes
HeapAddrs == (BufferAddr + NumExt + 1)..(BufferAddr + NumExt + NTypes + 1)
LtInjectArgs == {NULLPTR, BufferAddr + 1}

VARIABLES
    m_pExtern,   \* Instance::m_pExtern
    buffer,      \* the static union returned by Instance::GetBuffer()
    onceFlag,    \* g_onceFlag's std::once_flag: "init", "active" or "done"
    pc,          \* per thread: position inside the facade call
    op,          \* per thread: the facade call in progress, "none" when idle
    arg,         \* per thread: its constructor argument, or the injected pointer
    last,        \* the call completed last: its op, arg, returned address, outcome
    exited,      \* static teardown has destroyed g_instance
    nOps,        \* number of facade calls started
    ctorCalls,   \* T constructor invocations (CtorVerifier::Constructed)
    ctorCount,   \* T constructor invocations that returned normally
    dtorCount,   \* T destructor runs on the buffer (CtorVerifier::Destructed)
    extDtor,     \* destructor runs by the holder on each injected object
    raised,      \* facade calls that ended by propagating a constructor error
    epochCalls,  \* constructor invocations since the once_flag was last fresh
    epochThrows, \* constructor errors since the once_flag was last fresh
    epochInjects,\* non-null injections completed since the once_flag was last fresh
    seen,        \* addresses returned by Get/Reset since the last Reset/Inject began
    localAddr,   \* address at which Get/Reset last handed out a local instance
    lastInject,  \* pointer of the last completed Inject, until the next Reset/Inject
    pre,         \* holder snapshot taken when the running Reset/Inject began
    \* ---- load-time variant (SingletonType::LOAD_TIME), one holder per type ----
    lt_pExtern,  \* per type: SingletonInstance<T, LOAD_TIME>::m_pExtern
    g_pInternal, \* per type: the heap instance, NULLPTR when there is none
    g_entry,     \* per type: its LoadTimeSingletonEntry (m_isValid, m_next)
    stack,       \* LoadTimeSingletonEntryStack(): head of the registry
    lt_onceFlag, \* per type: g_onceFlag, "init" or "done"
    heap,        \* addresses of the T objects allocated and not deleted
    doubleFree,  \* some delete was applied to an address that was not allocated
    ltPhase,     \* "running", "static_done", "walking", "unloaded"
    walkEntry,   \* DestroyLoadTimeSingletons: the loop variable entry
    walkLog,     \* types whose m_deleteFunc the walk has invoked, in order
    regOrder,    \* types in the order of their first registration
    reReg,       \* some g_entry was registered a second time
    atExit,      \* types whose local instance was alive when the process ended
    ltOps,       \* number of load-time facade calls made
    ltRet        \* pointer returned by the last load-time facade call

(* concurrent first Get on distinct load-time types: where each type's      *)
(* caller stands inside Emplace / RegisterLoadTimeSingleton, the head it    *)
(* loaded, and whether a compare-exchange met a changed head                *)
VARIABLES regPc, regTmp, casFailed

stvars == <<m_pExtern, buffer, onceFlag, pc, op, arg, last, exited, nOps,
            ctorCalls, ctorCount, dtorCount, extDtor, raised, epochCalls,
            epochThrows, epochInjects, seen, localAddr, lastInject, pre>>
ltvars == <<lt_pExtern, g_pInternal, g_entry, stack, lt_onceFlag, heap,
            doubleFree, ltPhase, walkEntry, walkLog, regOrder, reReg, atExit,
            ltOps, ltRet, regPc, regTmp, casFailed>>
regvars == <<regPc, regTmp, casFailed>>
vars == <<stvars, ltvars>>

holder == <<m_pExtern, buffer>>
counts == <<ctorCalls, ctorCount, dtorCount, extDtor, raised, epochCalls, epochThrows,
            epochInjects>>
thread == <<pc, op, arg, last>>

RawBuffer == [st |-> "raw", val |-> 0]
NoPre == [mp |-> NULLPTR, dtor |-> 0, ctor |-> 0]
NoCall == [op |-> "none", arg |-> 0, ret |-> NULLPTR, outcome |-> "none"]

(* variant: a null m_pExtern is taken for the local buffer too *)
InstancePtr_NullIsBuffer(mp) == IF mp \in {NULLPTR, LOCAL_INSTANCE_ID} THEN BufferAddr ELSE mp

(* variant: every construction gets storage of its own, as from the heap *)
InstancePtr_Heap(mp) ==
    IF mp = LOCAL_INSTANCE_ID THEN BufferAddr + NumExt + ctorCount ELSE mp

(* Instance::operator T*() *)
InstancePtr(mp) == IF mp = LOCAL_INSTANCE_ID THEN BufferAddr ELSE mp

Quiet == \A t \in Threads : pc[t] = "idle"
TestOpRunning == \E t \in Threads : pc[t] # "idle" /\ op[t] \in {"Reset", "Inject", "Clear"}

Init ==
    /\ m_pExtern = NULLPTR
    /\ buffer = RawBuffer
    /\ onceFlag = "init"
    /\ pc = [t \in Threads |-> "idle"]
    /\ op = [t \in Threads |-> "none"]
    /\ arg = [t \in Threads |-> 0]
    /\ last = NoCall
    /\ exited = FALSE
    /\ nOps = 0
    /\ ctorCalls = 0
    /\ ctorCount = 0
    /\ dtorCount = 0
    /\ extDtor = [p \in ExtPtrs |-> 0]
    /\ raised = 0
    /\ epochCalls = 0
    /\ epochThrows = 0
    /\ epochInjects = 0
    /\ seen = {}
    /\ localAddr = NULLPTR
    /\ lastInject = NULLPTR
    /\ pre = NoPre
    /\ lt_pExtern = [T \in Types |-> NULLPTR]
    /\ g_pInternal = [T \in Types |-> NULLPTR]
    /\ g_entry = [T \in Types |-> [m_isValid |-> FALSE, m_next |-> NULLPTR]]
    /\ stack = NULLPTR
    /\ lt_onceFlag = [T \in Types |-> "init"]
    /\ heap = {}
    /\ doubleFree = FALSE
    /\ ltPhase = "running"
    /\ walkEntry = NULLPTR
    /\ walkLog = <<>>
    /\ regOrder = <<>>
    /\ reReg = FALSE
    /\ atExit = {}
    /\ ltOps = 0
    /\ ltRet = NULLPTR
    /\ regPc = [T \in Types |-> "idle"]
    /\ regTmp = [T \in Types |-> NULLPTR]
    /\ casFailed = FALSE

(* variant: the destructor is run on whatever m_pExtern designates *)
InstanceDtor_AnyNonNull ==
    /\ IF m_pExtern = LOCAL_INSTANCE_ID
          THEN buffer' = RawBuffer /\ dtorCount' = dtorCount + 1 /\ UNCHANGED extDtor
          ELSE IF m_pExtern \in ExtPtrs
                  THEN /\ extDtor' = [extDtor EXCEPT ![m_pExtern] = @ + 1]
                       /\ UNCHANGED <<buffer, dtorCount>>
                  ELSE UNCHANGED <<buffer, dtorCount, extDtor>>

(* Instance::~Instance(): destroys the buffer's object iff the holder is   *)
(* in local mode; m_pExtern itself is left as it is.                       *)
InstanceDtor ==
    /\ IF m_pExtern = LOCAL_INSTANCE_ID
          THEN buffer' = RawBuffer /\ dtorCount' = dtorCount + 1
          ELSE UNCHANGED <<buffer, dtorCount>>
    /\ UNCHANGED extDtor

(* OnceFlag::Reset(): destroys and re-creates the std::once_flag.          *)
OnceFlagReset ==
    /\ onceFlag' = "init"
    /\ epochCalls' = 0
    /\ epochThrows' = 0
    /\ epochInjects' = 0

(* the call of thread t returns to its caller: address r, outcome o *)
Complete(t, r, o) ==
    /\ last' = [op |-> op[t], arg |-> arg[t], ret |-> r, outcome |-> o]
    /\ pc' = [pc EXCEPT ![t] = "idle"]
    /\ op' = [op EXCEPT ![t] = "none"]
    /\ arg' = [arg EXCEPT ![t] = 0]

(* ------------------------------ Get ------------------------------------ *)
GetCall(t, a) ==
    /\ ~exited /\ nOps < MaxOps /\ ~TestOpRunning
    /\ pc[t] = "idle"
    /\ pc' = [pc EXCEPT ![t] = "call_once"]
    /\ op' = [op EXCEPT ![t] = "Get"]
    /\ arg' = [arg EXCEPT ![t] = a]
    /\ nOps' = nOps + 1
    /\ UNCHANGED <<holder, onceFlag, last, exited, counts, seen, localAddr, lastInject, pre>>
    /\ UNCHANGED ltvars

(* variant: an active flag does not block, the caller runs the callable too *)
CallOnce_NoBlock(t) ==
    /\ pc[t] = "call_once"
    /\ IF onceFlag = "done"
          THEN pc' = [pc EXCEPT ![t] = "ret"] /\ UNCHANGED onceFlag
          ELSE pc' = [pc EXCEPT ![t] = "dtor"] /\ onceFlag' = "active"
    /\ UNCHANGED <<holder, op, arg, last, exited, nOps, counts, seen, localAddr,
                   lastInject, pre>>
    /\ UNCHANGED ltvars

(* variant: the callable is run on every call, completed flag or not *)
CallOnce_Always(t) ==
    /\ pc[t] = "call_once"
    /\ onceFlag # "active"
    /\ pc' = [pc EXCEPT ![t] = "dtor"]
    /\ onceFlag' = "active"
    /\ UNCHANGED <<holder, op, arg, last, exited, nOps, counts, seen, localAddr,
                   lastInject, pre>>
    /\ UNCHANGED ltvars

(* std::call_once(g_onceFlag, &EmplaceHelper, args...): a completed flag   *)
(* returns at once, a fresh flag makes the caller the active execution, an *)
(* active flag blocks the caller.                                          *)
CallOnce(t) ==
    /\ pc[t] = "call_once"
    /\ onceFlag # "active"
    /\ IF onceFlag = "done"
          THEN pc' = [pc EXCEPT ![t] = "ret"] /\ UNCHANGED onceFlag
          ELSE pc' = [pc EXCEPT ![t] = "dtor"] /\ onceFlag' = "active"
    /\ UNCHANGED <<holder, op, arg, last, exited, nOps, counts, seen, localAddr,
                   lastInject, pre>>
    /\ UNCHANGED ltvars

(* variant: Emplace constructs without destroying what the holder has *)
EmplaceDestroy_Skip(t) ==
    /\ pc[t] = "dtor"
    /\ pc' = [pc EXCEPT ![t] = "ctor"]
    /\ UNCHANGED <<holder, onceFlag, op, arg, last, exited, nOps, counts, seen,
                   localAddr, lastInject, pre>>
    /\ UNCHANGED ltvars

(* Emplace: this->~Instance() *)
EmplaceDestroy(t) ==
    /\ pc[t] = "dtor"
    /\ InstanceDtor
    /\ pc' = [pc EXCEPT ![t] = "ctor"]
    /\ UNCHANGED <<m_pExtern, onceFlag, op, arg, last, exited, nOps,
                   ctorCalls, ctorCount, raised, epochCalls, epochThrows, epochInjects, seen, localAddr,
                   lastInject, pre>>
    /\ UNCHANGED ltvars

(* variant: the arguments are not forwarded, the same one is always used *)
CtorBegin_DefaultArg(t) ==
    /\ pc[t] = "ctor"
    /\ buffer' = [st |-> "constructing", val |-> CHOOSE a \in CtorArgs : TRUE]
    /\ ctorCalls' = ctorCalls + 1
    /\ epochCalls' = epochCalls + 1
    /\ pc' = [pc EXCEPT ![t] = "ctoring"]
    /\ UNCHANGED <<m_pExtern, onceFlag, op, arg, last, exited, nOps, ctorCount,
                   dtorCount, extDtor, raised, epochThrows, epochInjects, seen,
                   localAddr, lastInject, pre>>
    /\ UNCHANGED ltvars

(* Emplace: new (&GetBuffer()) T(args...) is entered *)
CtorBegin(t) ==
    /\ pc[t] = "ctor"
    /\ buffer' = [st |-> "constructing", val |-> arg[t]]
    /\ ctorCalls' = ctorCalls + 1
    /\ epochCalls' = epochCalls + 1
    /\ pc' = [pc EXCEPT ![t] = "ctoring"]
    /\ UNCHANGED <<m_pExtern, onceFlag, op, arg, last, exited, nOps,
                   ctorCount, dtorCount, extDtor, raised, epochThrows, epochInjects, seen, localAddr,
                   lastInject, pre>>
    /\ UNCHANGED ltvars

(* the constructor returns normally *)
CtorReturn(t) ==
    /\ pc[t] = "ctoring"
    /\ buffer' = [buffer EXCEPT !.st = "live"]
    /\ ctorCount' = ctorCount + 1
    /\ pc' = [pc EXCEPT ![t] = "setlocal"]
    /\ UNCHANGED <<m_pExtern, onceFlag, op, arg, last, exited, nOps,
                   ctorCalls, dtorCount, extDtor, raised, epochCalls, epochThrows, epochInjects,
                   seen, localAddr, lastInject, pre>>
    /\ UNCHANGED ltvars

(* the constructor raises: the buffer holds no object *)
CtorThrow(t) ==
    /\ pc[t] = "ctoring"
    /\ buffer' = RawBuffer
    /\ epochThrows' = epochThrows + 1
    /\ pc' = [pc EXCEPT ![t] = "catch"]
    /\ UNCHANGED <<m_pExtern, onceFlag, op, arg, last, exited, nOps,
                   ctorCalls, ctorCount, dtorCount, extDtor, raised, epochCalls,
                   epochInjects, seen, localAddr, lastInject, pre>>
    /\ UNCHANGED ltvars

(* variant: an injected pointer is not overwritten by the local tag *)
EmplaceSetLocal_KeepExtern(t) ==
    /\ pc[t] = "setlocal"
    /\ m_pExtern' = IF m_pExtern \in ExtPtrs THEN m_pExtern ELSE LOCAL_INSTANCE_ID
    /\ pc' = [pc EXCEPT ![t] = "once_ret"]
    /\ UNCHANGED <<buffer, onceFlag, op, arg, last, exited, nOps, counts, seen,
                   localAddr, lastInject, pre>>
    /\ UNCHANGED ltvars

(* Emplace: m_pExtern = LOCAL_INSTANCE_ID *)
EmplaceSetLocal(t) ==
    /\ pc[t] = "setlocal"
    /\ m_pExtern' = LOCAL_INSTANCE_ID
    /\ pc' = [pc EXCEPT ![t] = "once_ret"]
    /\ UNCHANGED <<buffer, onceFlag, op, arg, last, exited, nOps, counts,
                   seen, localAddr, lastInject, pre>>
    /\ UNCHANGED ltvars

(* variant: the catch block rolls back but does not rethrow *)
EmplaceCatch_Swallow(t) ==
    /\ pc[t] = "catch"
    /\ m_pExtern' = NULLPTR
    /\ pc' = [pc EXCEPT ![t] = "once_ret"]
    /\ UNCHANGED <<buffer, onceFlag, op, arg, last, exited, nOps, counts,
                   seen, localAddr, lastInject, pre>>
    /\ UNCHANGED ltvars

(* variant: Emplace without the try/catch, m_pExtern keeps its old value *)
EmplaceCatch_NoRollback(t) ==
    /\ pc[t] = "catch"
    /\ pc' = [pc EXCEPT ![t] = "once_exc"]
    /\ UNCHANGED <<holder, onceFlag, op, arg, last, exited, nOps, counts,
                   seen, localAddr, lastInject, pre>>
    /\ UNCHANGED ltvars

(* Emplace: catch (...) { m_pExtern = nullptr; throw; } *)
EmplaceCatch(t) ==
    /\ pc[t] = "catch"
    /\ m_pExtern' = NULLPTR
    /\ pc' = [pc EXCEPT ![t] = "once_exc"]
    /\ UNCHANGED <<buffer, onceFlag, op, arg, last, exited, nOps, counts,
                   seen, localAddr, lastInject, pre>>
    /\ UNCHANGED ltvars

(* std::call_once: the callable returned, the flag is completed *)
CallOnceReturn(t) ==
    /\ pc[t] = "once_ret"
    /\ onceFlag' = "done"
    /\ pc' = [pc EXCEPT ![t] = "ret"]
    /\ UNCHANGED <<holder, op, arg, last, exited, nOps, counts, seen, localAddr,
                   lastInject, pre>>
    /\ UNCHANGED ltvars

(* variant: the error is delivered to every caller waiting on the flag *)
CallOnceThrow_Broadcast(t) ==
    LET waiters == {u \in Threads : pc[u] = "call_once"} IN
    /\ pc[t] = "once_exc"
    /\ onceFlag' = "init"
    /\ last' = [op |-> op[t], arg |-> arg[t], ret |-> NULLPTR, outcome |-> "threw"]
    /\ pc' = [u \in Threads |-> IF u = t \/ u \in waiters THEN "idle" ELSE pc[u]]
    /\ op' = [u \in Threads |-> IF u = t \/ u \in waiters THEN "none" ELSE op[u]]
    /\ arg' = [u \in Threads |-> IF u = t \/ u \in waiters THEN 0 ELSE arg[u]]
    /\ raised' = raised + 1 + Cardinality(waiters)
    /\ pre' = NoPre
    /\ UNCHANGED <<holder, exited, nOps, ctorCalls, ctorCount,
                   dtorCount, extDtor, epochCalls, epochThrows, epochInjects, seen, localAddr, lastInject>>
    /\ UNCHANGED ltvars

(* variant: after a raising callable the flag stays taken *)
CallOnceThrow_KeepActive(t) ==
    /\ pc[t] = "once_exc"
    /\ Complete(t, NULLPTR, "threw")
    /\ raised' = raised + 1
    /\ pre' = NoPre
    /\ UNCHANGED <<holder, onceFlag, exited, nOps, ctorCalls, ctorCount, dtorCount,
                   extDtor, epochCalls, epochThrows, epochInjects, seen,
                   localAddr, lastInject>>
    /\ UNCHANGED ltvars

(* std::call_once: the callable raised; the flag is fresh again and the    *)
(* error leaves Get (and Reset) in the calling thread only.                *)
CallOnceThrow(t) ==
    /\ pc[t] = "once_exc"
    /\ onceFlag' = "init"
    /\ Complete(t, NULLPTR, "threw")
    /\ raised' = raised + 1
    /\ pre' = NoPre
    /\ UNCHANGED <<holder, exited, nOps, ctorCalls, ctorCount,
                   dtorCount, extDtor, epochCalls, epochThrows, epochInjects, seen, localAddr, lastInject>>
    /\ UNCHANGED ltvars

(* Get: return *static_cast<T*>(g_instance) *)
GetReturn(t) ==
    /\ pc[t] = "ret"
    /\ Complete(t, InstancePtr(m_pExtern), "ok")
    /\ seen' = seen \cup {InstancePtr(m_pExtern)}
    /\ localAddr' = IF m_pExtern = LOCAL_INSTANCE_ID
                       THEN InstancePtr(m_pExtern) ELSE localAddr
    /\ pre' = NoPre
    /\ UNCHANGED <<holder, onceFlag, exited, nOps, counts, lastInject>>
    /\ UNCHANGED ltvars

(* variant: TryGet on an empty holder constructs the object as Get does *)
TryGet_Lazy(t) ==
    /\ ~exited /\ nOps < MaxOps /\ ~TestOpRunning
    /\ pc[t] = "idle"
    /\ IF m_pExtern = NULLPTR /\ onceFlag = "init"
          THEN /\ m_pExtern' = LOCAL_INSTANCE_ID
               /\ buffer' = [st |-> "live", val |-> CHOOSE a \in CtorArgs : TRUE]
               /\ onceFlag' = "done"
               /\ ctorCalls' = ctorCalls + 1
               /\ ctorCount' = ctorCount + 1
               /\ epochCalls' = epochCalls + 1
          ELSE UNCHANGED <<holder, onceFlag, ctorCalls, ctorCount, epochCalls>>
    /\ last' = [op |-> "TryGet", arg |-> 0, ret |-> InstancePtr(m_pExtern'),
                outcome |-> "ok"]
    /\ nOps' = nOps + 1
    /\ UNCHANGED <<pc, op, arg, exited, dtorCount, extDtor, raised, epochThrows,
                   epochInjects, seen, localAddr, lastInject, pre>>
    /\ UNCHANGED ltvars

(* variant: TryGet hands out m_pExtern without the conversion *)
TryGet_Raw(t) ==
    /\ ~exited /\ nOps < MaxOps /\ ~TestOpRunning
    /\ pc[t] = "idle"
    /\ last' = [op |-> "TryGet", arg |-> 0, ret |-> m_pExtern, outcome |-> "ok"]
    /\ nOps' = nOps + 1
    /\ UNCHANGED <<holder, onceFlag, pc, op, arg, exited, counts, seen, localAddr, lastInject,
                   pre>>
    /\ UNCHANGED ltvars

(* ----------------------------- TryGet ---------------------------------- *)
TryGet(t) ==
    /\ ~exited /\ nOps < MaxOps /\ ~TestOpRunning
    /\ pc[t] = "idle"
    /\ last' = [op |-> "TryGet", arg |-> 0, ret |-> InstancePtr(m_pExtern),
                outcome |-> "ok"]
    /\ nOps' = nOps + 1
    /\ UNCHANGED <<holder, onceFlag, pc, op, arg, exited, counts, seen, localAddr, lastInject,
                   pre>>
    /\ UNCHANGED ltvars

(* TryGet while another thread is inside Emplace's placement new: the read *)
(* of m_pExtern is unsynchronised with the store of LOCAL_INSTANCE_ID that *)
(* follows the constructor (m_pExtern is a plain T*, TryGet takes no lock  *)
(* and does not pass call_once), so the store can be observed before the   *)
(* constructor has finished; this is the outcome in which it is.           *)
TryGetRace(t) ==
    /\ ~exited /\ nOps < MaxOps /\ ~TestOpRunning
    /\ pc[t] = "idle"
    /\ \E u \in Threads \ {t} : pc[u] = "ctoring" /\ op[u] = "Get"
    /\ last' = [op |-> "TryGet", arg |-> 0,
                ret |-> InstancePtr(LOCAL_INSTANCE_ID), outcome |-> "ok"]
    /\ nOps' = nOps + 1
    /\ UNCHANGED <<holder, onceFlag, pc, op, arg, exited, counts, seen, localAddr,
                   lastInject, pre>>
    /\ UNCHANGED ltvars

(* ------------------------------ Reset ---------------------------------- *)
ResetCall(t, a) ==
    /\ ~exited /\ nOps < MaxOps /\ Quiet
    /\ pc' = [pc EXCEPT ![t] = "flag_reset"]
    /\ op' = [op EXCEPT ![t] = "Reset"]
    /\ arg' = [arg EXCEPT ![t] = a]
    /\ nOps' = nOps + 1
    /\ seen' = {}
    /\ lastInject' = NULLPTR
    /\ pre' = [mp |-> m_pExtern, dtor |-> dtorCount, ctor |-> ctorCalls]
    /\ UNCHANGED <<holder, onceFlag, last, exited, counts, localAddr>>
    /\ UNCHANGED ltvars

(* Reset: g_onceFlag.Reset(); then Get(args...) *)
ResetReopen(t) ==
    /\ pc[t] = "flag_reset"
    /\ OnceFlagReset
    /\ pc' = [pc EXCEPT ![t] = "call_once"]
    /\ UNCHANGED <<holder, op, arg, last, exited, nOps, ctorCalls,
                   ctorCount, dtorCount, extDtor, raised, seen, localAddr, lastInject, pre>>
    /\ UNCHANGED ltvars

(* ------------------------------ Inject --------------------------------- *)
InjectCall(t, p) ==
    /\ ~exited /\ nOps < MaxOps /\ Quiet
    /\ pc' = [pc EXCEPT ![t] = "inject"]
    /\ op' = [op EXCEPT ![t] = "Inject"]
    /\ arg' = [arg EXCEPT ![t] = p]
    /\ nOps' = nOps + 1
    /\ seen' = {}
    /\ lastInject' = NULLPTR
    /\ pre' = [mp |-> m_pExtern, dtor |-> dtorCount, ctor |-> ctorCalls]
    /\ UNCHANGED <<holder, onceFlag, last, exited, counts, localAddr>>
    /\ UNCHANGED ltvars

(* variant: Clear goes to SetExtern(nullptr) without passing Inject's gate *)
ClearCall_NoGate(t) ==
    /\ ~exited /\ nOps < MaxOps /\ Quiet
    /\ pc' = [pc EXCEPT ![t] = "setext_dtor"]
    /\ op' = [op EXCEPT ![t] = "Clear"]
    /\ arg' = [arg EXCEPT ![t] = NULLPTR]
    /\ nOps' = nOps + 1
    /\ seen' = {}
    /\ lastInject' = NULLPTR
    /\ pre' = [mp |-> m_pExtern, dtor |-> dtorCount, ctor |-> ctorCalls]
    /\ UNCHANGED <<holder, onceFlag, last, exited, counts, localAddr>>
    /\ UNCHANGED ltvars

(* SingletonTestApi::Clear(): SingletonType::Inject(nullptr) *)
ClearCall(t) ==
    /\ ~exited /\ nOps < MaxOps /\ Quiet
    /\ pc' = [pc EXCEPT ![t] = "inject"]
    /\ op' = [op EXCEPT ![t] = "Clear"]
    /\ arg' = [arg EXCEPT ![t] = NULLPTR]
    /\ nOps' = nOps + 1
    /\ seen' = {}
    /\ lastInject' = NULLPTR
    /\ pre' = [mp |-> m_pExtern, dtor |-> dtorCount, ctor |-> ctorCalls]
    /\ UNCHANGED <<holder, onceFlag, last, exited, counts, localAddr>>
    /\ UNCHANGED ltvars

(* variant: a null Inject leaves the once_flag as it is *)
InjectGate_NoReopen(t) ==
    /\ pc[t] = "inject"
    /\ IF arg[t] # NULLPTR
          THEN onceFlag' = "done"
          ELSE UNCHANGED onceFlag
    /\ pc' = [pc EXCEPT ![t] = "setext_dtor"]
    /\ UNCHANGED <<holder, op, arg, last, exited, nOps, counts, seen, localAddr,
                   lastInject, pre>>
    /\ UNCHANGED ltvars

(* variant: a non-null Inject leaves the once_flag as it is *)
InjectGate_NoCallOnce(t) ==
    /\ pc[t] = "inject"
    /\ IF arg[t] # NULLPTR
          THEN UNCHANGED <<onceFlag, epochCalls, epochThrows, epochInjects>>
          ELSE OnceFlagReset
    /\ pc' = [pc EXCEPT ![t] = "setext_dtor"]
    /\ UNCHANGED <<holder, op, arg, last, exited, nOps, ctorCalls,
                   ctorCount, dtorCount, extDtor, raised, seen, localAddr, lastInject, pre>>
    /\ UNCHANGED ltvars

(* Inject: if (object) std::call_once(g_onceFlag, []() {});                *)
(*         else g_onceFlag.Reset();                                        *)
InjectGate(t) ==
    /\ pc[t] = "inject"
    /\ IF arg[t] # NULLPTR
          THEN onceFlag' = "done" /\ UNCHANGED <<epochCalls, epochThrows, epochInjects>>
          ELSE OnceFlagReset
    /\ pc' = [pc EXCEPT ![t] = "setext_dtor"]
    /\ UNCHANGED <<holder, op, arg, last, exited, nOps, ctorCalls,
                   ctorCount, dtorCount, extDtor, raised, seen, localAddr, lastInject, pre>>
    /\ UNCHANGED ltvars

(* variant: SetExtern overwrites m_pExtern without destroying the local object *)
SetExternDestroy_Skip(t) ==
    /\ pc[t] = "setext_dtor"
    /\ pc' = [pc EXCEPT ![t] = "setext"]
    /\ UNCHANGED <<holder, onceFlag, op, arg, last, exited, nOps, counts,
                   seen, localAddr, lastInject, pre>>
    /\ UNCHANGED ltvars

(* SetExtern: this->~Instance() *)
SetExternDestroy(t) ==
    /\ pc[t] = "setext_dtor"
    /\ InstanceDtor
    /\ pc' = [pc EXCEPT ![t] = "setext"]
    /\ UNCHANGED <<m_pExtern, onceFlag, op, arg, last, exited, nOps,
                   ctorCalls, ctorCount, raised, epochCalls, epochThrows, epochInjects, seen, localAddr,
                   lastInject, pre>>
    /\ UNCHANGED ltvars

(* SetExtern: m_pExtern = ptr; Inject returns *)
SetExternStore(t) ==
    /\ pc[t] = "setext"
    /\ m_pExtern' = arg[t]
    /\ Complete(t, NULLPTR, "ok")
    /\ lastInject' = arg[t]
    /\ epochInjects' = IF arg[t] # NULLPTR THEN epochInjects + 1 ELSE epochInjects
    /\ pre' = NoPre
    /\ UNCHANGED <<buffer, onceFlag, exited, nOps, ctorCalls, ctorCount, dtorCount,
                   extDtor, raised, epochCalls, epochThrows, seen, localAddr>>
    /\ UNCHANGED ltvars

(* variant: the holder's destructor does not run at the end of the process *)
Teardown_NoDtor ==
    /\ ~exited /\ Quiet
    /\ exited' = TRUE
    /\ UNCHANGED <<holder, onceFlag, thread, nOps, counts, seen, localAddr,
                   lastInject, pre>>
    /\ UNCHANGED ltvars

(* --------------------------- static teardown --------------------------- *)
(* g_instance.~Instance() at the end of the process *)
Teardown ==
    /\ ~exited /\ Quiet
    /\ InstanceDtor
    /\ exited' = TRUE
    /\ UNCHANGED <<m_pExtern, onceFlag, thread, nOps, ctorCalls, ctorCount,
                   raised, epochCalls, epochThrows, epochInjects, seen, localAddr, lastInject, pre>>
    /\ UNCHANGED ltvars

Next ==
    \/ \E t \in Threads, a \in CtorArgs : GetCall(t, a)
    \/ \E t \in Threads : CallOnce(t)
    \/ \E t \in Threads : EmplaceDestroy(t)
    \/ \E t \in Threads : CtorBegin(t)
    \/ \E t \in Threads : CtorReturn(t)
    \/ \E t \in Threads : CtorThrow(t)
    \/ \E t \in Threads : EmplaceSetLocal(t)
    \/ \E t \in Threads : EmplaceCatch(t)
    \/ \E t \in Threads : CallOnceReturn(t)
    \/ \E t \in Threads : CallOnceThrow(t)
    \/ \E t \in Threads : GetReturn(t)
    \/ \E t \in Threads : TryGet(t)
    \/ \E t \in Threads : TryGetRace(t)
    \/ \E t \in Threads, a \in CtorArgs : ResetCall(t, a)
    \/ \E t \in Threads : ResetReopen(t)
    \/ \E t \in Threads, p \in ExtPtrs \cup {NULLPTR} : InjectCall(t, p)
    \/ \E t \in Threads : ClearCall(t)
    \/ \E t \in Threads : InjectGate(t)
    \/ \E t \in Threads : SetExternDestroy(t)
    \/ \E t \in Threads : SetExternStore(t)
    \/ Teardown

Spec == Init /\ [][Next]_vars

(* ======================================================================= *)
(* Load-time variant: SingletonInstance<T, SingletonType::LOAD_TIME> and   *)
(* the registry of unload-time destructors.  The instance lives on the     *)
(* heap, g_entry of each type is pushed on a global stack by every         *)
(* successful Emplace, and DestroyLoadTimeSingletons walks that stack      *)
(* after static destruction.  Facade calls are taken one at a time.        *)
(* ======================================================================= *)

(* SingletonInstance<T, LOAD_TIME>::operator T*() *)
LtInstancePtr(T) ==
    IF lt_pExtern[T] = LOCAL_INSTANCE_ID THEN g_pInternal[T] ELSE lt_pExtern[T]

(* the holder's heap state: pointer, validity flag, heap, double delete *)
NoDestroy(T) ==
    [pInt |-> g_pInternal[T], valid |-> g_entry[T].m_isValid, heap |-> heap,
     twice |-> FALSE]

(* variant: plain delete, the pointer and the validity flag are kept *)
DestroyInternalInstance_KeepPointer(T) ==
    [pInt  |-> g_pInternal[T],
     valid |-> g_entry[T].m_isValid,
     heap  |-> heap \ {g_pInternal[T]},
     twice |-> g_pInternal[T] # NULLPTR /\ g_pInternal[T] \notin heap]

(* DestroyInternalInstance(): delete std::exchange(g_pInternal, nullptr);  *)
(*                            g_entry.m_isValid = false;                   *)
DestroyInternalInstance(T) ==
    [pInt  |-> NULLPTR,
     valid |-> FALSE,
     heap  |-> heap \ {g_pInternal[T]},
     twice |-> g_pInternal[T] # NULLPTR /\ g_pInternal[T] \notin heap]

(* SingletonInstance<T, LOAD_TIME>::Reset(): destroys the internal         *)
(* instance iff m_pExtern is LOCAL_INSTANCE_ID                             *)
HolderReset(T) ==
    IF lt_pExtern[T] = LOCAL_INSTANCE_ID
       THEN DestroyInternalInstance(T)
       ELSE NoDestroy(T)

(* variant: the entry becomes the head without being linked to the old one *)
RegisterLoadTimeSingleton_NoLink(e, entries) ==
    [head |-> e, entries |-> entries]

(* RegisterLoadTimeSingleton(entry): entry->m_next = head; head = entry    *)
(* (the compare-exchange succeeds at once when no other push interferes)   *)
RegisterLoadTimeSingleton(e, entries) ==
    [head |-> e, entries |-> [entries EXCEPT ![e].m_next = stack]]

(* the entries met by following m_next from e for at most n steps *)
RECURSIVE Chain(_, _)
Chain(e, n) ==
    IF e = NULLPTR \/ n = 0 THEN {}
    ELSE {e} \cup Chain(g_entry[e].m_next, n - 1)

(* following m_next from e reaches nullptr within n steps *)
RECURSIVE ChainEnds(_, _)
ChainEnds(e, n) ==
    IF e = NULLPTR THEN TRUE
    ELSE IF n = 0 THEN FALSE
    ELSE ChainEnds(g_entry[e].m_next, n - 1)

Range(q) == {q[i] : i \in 1..Len(q)}
Reverse(q) == [i \in 1..Len(q) |-> q[Len(q) + 1 - i]]

(* the types whose local instance is allocated *)
LtAlive == {T \in Types : lt_pExtern[T] = LOCAL_INSTANCE_ID /\ g_pInternal[T] \in heap}

ltwalk == <<ltPhase, walkEntry, walkLog, atExit>>

(* Emplace(args...): Reset(); CreateInternalInstance(args...);             *)
(* RegisterLoadTimeSingleton(&g_entry); m_pExtern = LOCAL_INSTANCE_ID.     *)
(* thr: the constructor raises, which ends Emplace inside                  *)
(* CreateInternalInstance, before g_pInternal is assigned.                 *)
LtEmplace(T, thr) ==
    LET r == HolderReset(T) IN
    /\ doubleFree' = (doubleFree \/ r.twice)
    /\ IF thr
          THEN /\ g_pInternal' = [g_pInternal EXCEPT ![T] = r.pInt]
               /\ g_entry' = [g_entry EXCEPT ![T].m_isValid = r.valid]
               /\ heap' = r.heap
               /\ UNCHANGED <<lt_pExtern, stack, regOrder, reReg>>
          ELSE \E a \in HeapAddrs \ r.heap :
               LET reg == RegisterLoadTimeSingleton(
                              T, [g_entry EXCEPT ![T].m_isValid = TRUE]) IN
               /\ g_pInternal' = [g_pInternal EXCEPT ![T] = a]
               /\ heap' = r.heap \cup {a}
               /\ g_entry' = reg.entries
               /\ stack' = reg.head
               /\ lt_pExtern' = [lt_pExtern EXCEPT ![T] = LOCAL_INSTANCE_ID]
               /\ regOrder' = IF T \in Range(regOrder) THEN regOrder
                                                       ELSE Append(regOrder, T)
               /\ reReg' = (reReg \/ T \in Range(regOrder))

(* Singleton<T, LOAD_TIME>::Get: call_once runs Emplace when the flag is   *)
(* fresh; an error leaves the flag fresh and the call                      *)
LtGet(T, thr) ==
    /\ ltPhase = "running" /\ ltOps < MaxLtOps
    /\ ltOps' = ltOps + 1
    /\ IF lt_onceFlag[T] = "done"
          THEN /\ ~thr
               /\ ltRet' = LtInstancePtr(T)
               /\ UNCHANGED <<lt_pExtern, g_pInternal, g_entry, stack, lt_onceFlag,
                              heap, doubleFree, regOrder, reReg>>
          ELSE /\ LtEmplace(T, thr)
               /\ lt_onceFlag' = [lt_onceFlag EXCEPT ![T] = IF thr THEN "init" ELSE "done"]
               /\ ltRet' = IF thr THEN NULLPTR ELSE g_pInternal'[T]
    /\ UNCHANGED <<ltwalk, stvars, regvars>>

(* Singleton<T, LOAD_TIME>::Reset: g_onceFlag.Reset(); return Get(args...) *)
LtReset(T, thr) ==
    /\ ltPhase = "running" /\ ltOps < MaxLtOps
    /\ ltOps' = ltOps + 1
    /\ LtEmplace(T, thr)
    /\ lt_onceFlag' = [lt_onceFlag EXCEPT ![T] = IF thr THEN "init" ELSE "done"]
    /\ ltRet' = IF thr THEN NULLPTR ELSE g_pInternal'[T]
    /\ UNCHANGED <<ltwalk, stvars, regvars>>

(* Singleton<T, LOAD_TIME>::Inject(object): the flag is completed or       *)
(* reset, then SetExtern(object): Reset(); m_pExtern = ptr                 *)
LtInject(T, p) ==
    LET r == HolderReset(T) IN
    /\ ltPhase = "running" /\ ltOps < MaxLtOps
    /\ ltOps' = ltOps + 1
    /\ lt_onceFlag' = [lt_onceFlag EXCEPT ![T] = IF p # NULLPTR THEN "done" ELSE "init"]
    /\ doubleFree' = (doubleFree \/ r.twice)
    /\ g_pInternal' = [g_pInternal EXCEPT ![T] = r.pInt]
    /\ g_entry' = [g_entry EXCEPT ![T].m_isValid = r.valid]
    /\ heap' = r.heap
    /\ lt_pExtern' = [lt_pExtern EXCEPT ![T] = p]
    /\ ltRet' = NULLPTR
    /\ UNCHANGED <<stack, regOrder, reReg, ltwalk, stvars, regvars>>

(* Singleton<T, LOAD_TIME>::TryGet: return g_instance *)
LtTryGet(T) ==
    /\ ltPhase = "running" /\ ltOps < MaxLtOps
    /\ ltOps' = ltOps + 1
    /\ ltRet' = LtInstancePtr(T)
    /\ UNCHANGED <<lt_pExtern, g_pInternal, g_entry, stack, lt_onceFlag, heap,
                   doubleFree, regOrder, reReg, ltwalk, stvars, regvars>>

(* static destruction: g_instance, g_entry and the stack are trivially     *)
(* destructible (static_assert in Singleton), nothing is run on them       *)
LtStaticTeardown ==
    /\ ltPhase = "running"
    /\ ltPhase' = "static_done"
    /\ atExit' = LtAlive
    /\ UNCHANGED <<lt_pExtern, g_pInternal, g_entry, stack, lt_onceFlag, heap,
                   doubleFree, walkEntry, walkLog, regOrder, reReg, ltOps, ltRet,
                   stvars, regvars>>

(* DestroyLoadTimeSingletons: entry = LoadTimeSingletonEntryStack().load() *)
LtUnloadBegin ==
    /\ ltPhase = "static_done"
    /\ ltPhase' = "walking"
    /\ walkEntry' = stack
    /\ UNCHANGED <<lt_pExtern, g_pInternal, g_entry, stack, lt_onceFlag, heap,
                   doubleFree, walkLog, regOrder, reReg, atExit, ltOps, ltRet,
                   stvars, regvars>>

(* one iteration of the loop: if (entry->m_isValid) entry->m_deleteFunc(); *)
(* entry = entry->m_next                                                   *)
LtWalkStep ==
    /\ ltPhase = "walking" /\ walkEntry # NULLPTR
    /\ LET e == walkEntry
           r == IF g_entry[e].m_isValid THEN DestroyInternalInstance(e)
                                        ELSE NoDestroy(e)
       IN /\ walkLog' = IF g_entry[e].m_isValid THEN Append(walkLog, e) ELSE walkLog
          /\ g_pInternal' = [g_pInternal EXCEPT ![e] = r.pInt]
          /\ g_entry' = [g_entry EXCEPT ![e].m_isValid = r.valid]
          /\ heap' = r.heap
          /\ doubleFree' = (doubleFree \/ r.twice)
          /\ walkEntry' = g_entry[e].m_next
    /\ UNCHANGED <<lt_pExtern, stack, lt_onceFlag, ltPhase, regOrder, reReg,
                   atExit, ltOps, ltRet, stvars, regvars>>

(* the loop ends: entry == nullptr *)
LtWalkEnd ==
    /\ ltPhase = "walking" /\ walkEntry = NULLPTR
    /\ ltPhase' = "unloaded"
    /\ UNCHANGED <<lt_pExtern, g_pInternal, g_entry, stack, lt_onceFlag, heap,
                   doubleFree, walkEntry, walkLog, regOrder, reReg, atExit, ltOps,
                   ltRet, stvars, regvars>>

NextLT ==
    \/ \E T \in Types, thr \in BOOLEAN : LtGet(T, thr)
    \/ \E T \in Types, thr \in BOOLEAN : LtReset(T, thr)
    \/ \E T \in Types, p \in LtInjectArgs : LtInject(T, p)
    \/ \E T \in Types : LtTryGet(T)
    \/ LtStaticTeardown
    \/ LtUnloadBegin
    \/ LtWalkStep
    \/ LtWalkEnd

SpecLT == Init /\ [][NextLT]_vars

(* ----------------------------------------------------------------------- *)
(* Concurrent registration.  Each type's first Get runs on its own thread; *)
(* the threads meet only at the atomic head of the registry.  The steps    *)
(* of RegisterLoadTimeSingleton are taken one at a time: the load of the   *)
(* head, the write of entry->m_next, the compare-exchange.                 *)

regframe == <<lt_pExtern, lt_onceFlag, doubleFree, reReg, ltwalk, ltOps, ltRet,
              stvars>>

(* all first Get calls that began have returned *)
RegQuiet == \A T \in Types : regPc[T] \in {"idle", "done"}

(* the entries whose compare-exchange has succeeded *)
Pushed == {T \in Types : regPc[T] \in {"setlocal", "done"}}

(* Get on an empty holder: call_once runs Emplace; Reset() finds nothing,  *)
(* CreateInternalInstance allocates the object and sets m_isValid          *)
RegCreate(T) ==
    /\ ltPhase = "running"
    /\ regPc[T] = "idle" /\ lt_onceFlag[T] = "init"
    /\ \E a \in HeapAddrs \ heap :
           /\ g_pInternal' = [g_pInternal EXCEPT ![T] = a]
           /\ heap' = heap \cup {a}
    /\ g_entry' = [g_entry EXCEPT ![T].m_isValid = TRUE]
    /\ regPc' = [regPc EXCEPT ![T] = "load"]
    /\ UNCHANGED <<stack, regOrder, regTmp, casFailed, regframe>>

(* LoadTimeSingletonEntryStack().load(std::memory_order_relaxed) *)
RegLoad(T) ==
    /\ regPc[T] = "load"
    /\ regTmp' = [regTmp EXCEPT ![T] = stack]
    /\ regPc' = [regPc EXCEPT ![T] = "write"]
    /\ UNCHANGED <<g_pInternal, heap, g_entry, stack, regOrder, casFailed, regframe>>

(* entry->m_next = the head that was read (by the load, or by the failed   *)
(* compare-exchange, which stores the current head in its first argument)  *)
RegWriteNext(T) ==
    /\ regPc[T] = "write"
    /\ g_entry' = [g_entry EXCEPT ![T].m_next = regTmp[T]]
    /\ regPc' = [regPc EXCEPT ![T] = "cas"]
    /\ UNCHANGED <<g_pInternal, heap, stack, regOrder, regTmp, casFailed, regframe>>

(* variant: the head is stored without being compared with entry->m_next *)
RegCasSucceed_Blind(T) ==
    /\ regPc[T] = "cas"
    /\ stack' = T
    /\ regOrder' = Append(regOrder, T)
    /\ regPc' = [regPc EXCEPT ![T] = "setlocal"]
    /\ UNCHANGED <<g_pInternal, heap, g_entry, regTmp, casFailed, regframe>>

(* compare_exchange_weak(entry->m_next, entry) succeeds: the head is still *)
(* entry->m_next and becomes entry                                         *)
RegCasSucceed(T) ==
    /\ regPc[T] = "cas"
    /\ stack = g_entry[T].m_next
    /\ stack' = T
    /\ regOrder' = Append(regOrder, T)
    /\ regPc' = [regPc EXCEPT ![T] = "setlocal"]
    /\ UNCHANGED <<g_pInternal, heap, g_entry, regTmp, casFailed, regframe>>

(* compare_exchange_weak fails, because another push changed the head or   *)
(* spuriously: the current head is read for entry->m_next, the loop        *)
(* goes round                                                              *)
RegCasFail(T) ==
    /\ regPc[T] = "cas"
    /\ regTmp' = [regTmp EXCEPT ![T] = stack]
    /\ casFailed' = (casFailed \/ stack # g_entry[T].m_next)
    /\ regPc' = [regPc EXCEPT ![T] = "write"]
    /\ UNCHANGED <<g_pInternal, heap, g_entry, stack, regOrder, regframe>>

(* m_pExtern = LOCAL_INSTANCE_ID; call_once completes the flag, Get returns *)
RegSetLocal(T) ==
    /\ regPc[T] = "setlocal"
    /\ lt_pExtern' = [lt_pExtern EXCEPT ![T] = LOCAL_INSTANCE_ID]
    /\ lt_onceFlag' = [lt_onceFlag EXCEPT ![T] = "done"]
    /\ ltRet' = g_pInternal[T]
    /\ regPc' = [regPc EXCEPT ![T] = "done"]
    /\ UNCHANGED <<g_pInternal, heap, g_entry, stack, regOrder, regTmp, casFailed,
                   doubleFree, reReg, ltwalk, ltOps, stvars>>

(* the process ends after every Get that began has returned *)
RegStaticTeardown == RegQuiet /\ LtStaticTeardown

NextReg ==
    \/ \E T \in Types : RegCreate(T)
    \/ \E T \in Types : RegLoad(T)
    \/ \E T \in Types : RegWriteNext(T)
    \/ \E T \in Types : RegCasSucceed(T)
    \/ \E T \in Types : RegCasFail(T)
    \/ \E T \in Types : RegSetLocal(T)
    \/ RegStaticTeardown
    \/ LtUnloadBegin
    \/ LtWalkStep
    \/ LtWalkEnd

SpecReg == Init /\ [][NextReg]_vars

(* ======================================================================= *)
(*                               Properties                                *)
(* ======================================================================= *)

(* thread t takes a step of a call of kind o *)
StepOf(t, o) == pc'[t] # pc[t] /\ (op[t] = o \/ op'[t] = o)

(* C1: concurrent Get calls on a fresh once_flag run the constructor once: *)
(* in one epoch at most one constructor invocation does not raise, and     *)
(* once the epoch is completed in local mode exactly one invocation has    *)
(* not raised (with no raising constructor: exactly one invocation in      *)
(* total) and every Get has returned the one buffer address.               *)
C1_OneConstructionPerEpoch ==
    /\ epochCalls <= epochThrows + 1
    /\ (epochThrows = 0 => epochCalls <= 1)
    /\ Cardinality(seen) <= 1
    /\ (onceFlag = "done" /\ m_pExtern = LOCAL_INSTANCE_ID)
          => (epochCalls = epochThrows + 1 /\ seen \subseteq {BufferAddr})
    /\ \A t \in Threads : (pc[t] = "ret" /\ op[t] = "Get") => onceFlag = "done"

(* every thread is inside its first Get at once, past call_once, and the   *)
(* constructor has been invoked once                                       *)
C1_Witness ==
    /\ nOps = NThreads
    /\ \A t \in Threads : pc[t] = "ret" /\ op[t] = "Get"
    /\ ctorCalls = 1
    /\ m_pExtern = LOCAL_INSTANCE_ID

(* C2: while the once_flag is completed, no step of a Get call changes the *)
(* holder, the flag, or the constructor/destructor counts, and the call    *)
(* returns normally the address the previous Get returned, whatever its    *)
(* arguments.                                                              *)
C2_CompletedEpochGetIsNoOp ==
    [][\A t \in Threads :
          (onceFlag = "done" /\ StepOf(t, "Get"))
             => /\ UNCHANGED <<m_pExtern, buffer, onceFlag, ctorCalls, ctorCount,
                               dtorCount, extDtor>>
                /\ pc'[t] = "idle" =>
                      /\ last' = [op |-> "Get", arg |-> arg[t],
                                  ret |-> InstancePtr(m_pExtern), outcome |-> "ok"]
                      /\ seen # {} => seen = {last'.ret}]_vars

(* a Get with another argument than the one the live object was built from *)
(* has returned the buffer, after a single constructor invocation          *)
C2_Witness ==
    /\ Quiet /\ nOps = 2
    /\ last.op = "Get" /\ last.outcome = "ok" /\ last.ret = BufferAddr
    /\ m_pExtern = LOCAL_INSTANCE_ID /\ buffer.st = "live"
    /\ last.arg # buffer.val
    /\ ctorCalls = 1 /\ dtorCount = 0

(* C3: once a Get has returned and no Reset or Inject has been called      *)
(* since, TryGet returns a non-null pointer equal to that address.         *)
C3_TryGetAfterGet ==
    [][\A t \in Threads :
          (TryGet(t) /\ seen # {})
             => (last'.ret # NULLPTR /\ seen = {last'.ret})]_vars

C3_Witness ==
    /\ last.op = "TryGet" /\ last.outcome = "ok"
    /\ last.ret = BufferAddr
    /\ seen = {BufferAddr}

(* C4: TryGet returns null whenever the holder is empty (m_pExtern null),  *)
(* in particular as the very first call.                                   *)
C4_TryGetEmptyIsNull ==
    [][\A t \in Threads :
          (TryGet(t) /\ m_pExtern = NULLPTR) => last'.ret = NULLPTR]_vars

C4_Witness ==
    /\ nOps = 1
    /\ last.op = "TryGet" /\ last.outcome = "ok"
    /\ last.ret = NULLPTR /\ m_pExtern = NULLPTR

(* C5: when the constructor raises inside Get, the error goes on through   *)
(* Emplace's catch block and the Get call ends with it, the holder is      *)
(* empty (TryGet would return null), the once_flag is fresh again; a Get   *)
(* meeting a fresh flag enters Emplace, and every constructor invocation   *)
(* uses the arguments of the call that makes it.                           *)
C5_GetThrowRetries ==
    [][\A t \in Threads :
          /\ (CallOnceThrow(t) /\ op[t] = "Get")
                => /\ last'.op = "Get" /\ last'.outcome = "threw"
                   /\ m_pExtern' = NULLPTR
                   /\ InstancePtr(m_pExtern') = NULLPTR
                   /\ buffer' = RawBuffer
                   /\ onceFlag' = "init"
          /\ (op[t] = "Get" /\ pc[t] = "catch" /\ pc'[t] # pc[t])
                => (pc'[t] = "once_exc" /\ m_pExtern' = NULLPTR)
          /\ (op[t] = "Get" /\ pc[t] = "call_once" /\ pc'[t] # pc[t] /\ onceFlag = "init")
                => pc'[t] = "dtor"
          /\ (pc[t] = "ctor" /\ pc'[t] # pc[t])
                => (ctorCalls' = ctorCalls + 1 /\ buffer'.val = arg[t])
          /\ (pc'[t] \in {"ctoring", "setlocal", "once_ret"})
                => buffer'.val = arg'[t]]_vars

(* one Get raised, the next Get has built the object from its own argument *)
C5_Witness ==
    \E u \in Threads :
        /\ nOps = 2
        /\ last.op = "Get" /\ last.outcome = "threw"
        /\ op[u] = "Get" /\ pc[u] = "once_ret"
        /\ arg[u] # last.arg
        /\ ctorCalls = 2 /\ ctorCount = 1
        /\ m_pExtern = LOCAL_INSTANCE_ID /\ buffer = [st |-> "live", val |-> arg[u]]

(* C6: when the constructor raises inside Reset, from any prior mode, the  *)
(* call ends with the holder empty, the buffer without object, the prior   *)
(* local object destroyed exactly once (none otherwise), the once_flag     *)
(* fresh; a Get that passes call_once on an empty holder enters Emplace.   *)
C6_ResetThrowRollsBack ==
    [][\A t \in Threads :
          /\ (CallOnceThrow(t) /\ op[t] = "Reset")
                => /\ last'.op = "Reset" /\ last'.outcome = "threw"
                   /\ m_pExtern' = NULLPTR
                   /\ InstancePtr(m_pExtern') = NULLPTR
                   /\ buffer' = RawBuffer
                   /\ onceFlag' = "init"
                   /\ dtorCount' = pre.dtor
                                     + (IF pre.mp = LOCAL_INSTANCE_ID THEN 1 ELSE 0)
                   /\ \A p \in ExtPtrs : extDtor'[p] = 0
          /\ (op[t] = "Get" /\ pc[t] = "call_once" /\ pc'[t] # pc[t]
                 /\ m_pExtern = NULLPTR)
                => pc'[t] = "dtor"]_vars

(* Get built the object, Reset destroyed it and its constructor raised *)
C6_Witness ==
    /\ Quiet /\ nOps = 2
    /\ last.op = "Reset" /\ last.outcome = "threw"
    /\ m_pExtern = NULLPTR /\ buffer = RawBuffer /\ onceFlag = "init"
    /\ ctorCalls = 2 /\ ctorCount = 1 /\ dtorCount = 1

(* C7: a constructor error is raised only in the thread that ran the       *)
(* constructor: the calls that ended with an error are as many as the      *)
(* constructor invocations that raised, a thread waiting in call_once      *)
(* never ends its call from there, and when it proceeds on the fresh flag  *)
(* it becomes the active execution and constructs from its own arguments.  *)
C7_OnlyBuilderRaises ==
    /\ [](raised + Cardinality({t \in Threads : pc[t] \in {"catch", "once_exc"}})
            = ctorCalls - ctorCount - (IF buffer.st = "constructing" THEN 1 ELSE 0))
    /\ [][\A t \in Threads :
            /\ (pc[t] # "idle" /\ pc'[t] = "idle" /\ last'.outcome = "threw")
                  => pc[t] = "once_exc"
            /\ (pc[t] = "call_once" /\ pc'[t] # pc[t])
                  => \/ (onceFlag = "done" /\ pc'[t] = "ret")
                     \/ (onceFlag = "init" /\ pc'[t] = "dtor" /\ onceFlag' = "active")
            /\ (pc[t] = "ctor" /\ pc'[t] # pc[t]) => buffer'.val = arg[t]]_vars

(* the winner's constructor has raised while another Get waits on the flag *)
C7_Witness ==
    \E a, b \in Threads :
        /\ a # b
        /\ pc[a] = "once_exc" /\ op[a] = "Get"
        /\ pc[b] = "call_once" /\ op[b] = "Get"
        /\ arg[a] # arg[b]
        /\ onceFlag = "active"

(* C8: when Inject(ptr), ptr non-null, returns, the holder designates ptr, *)
(* the once_flag is completed and a previously local object has been       *)
(* destroyed exactly once; until the next Reset/Inject every Get and       *)
(* TryGet returns ptr.                                                     *)
C8_InjectNonNull ==
    [][\A t \in Threads :
          /\ (SetExternStore(t) /\ arg[t] # NULLPTR)
                => /\ m_pExtern' = arg[t]
                   /\ onceFlag' = "done"
                   /\ dtorCount' = pre.dtor
                                     + (IF pre.mp = LOCAL_INSTANCE_ID THEN 1 ELSE 0)
                   /\ buffer' = RawBuffer
          /\ (lastInject # NULLPTR /\ (TryGet(t) \/ GetReturn(t)))
                => (last'.ret = lastInject /\ last'.outcome = "ok")]_vars

(* Get, Inject(ptr), a Get that returned ptr, then a TryGet that did too *)
C8_Witness ==
    /\ lastInject \in ExtPtrs
    /\ last.op = "TryGet" /\ last.ret = lastInject
    /\ seen = {lastInject}
    /\ ctorCount = 1 /\ dtorCount = 1

(* C9: the holder never runs the destructor of an injected object, in any  *)
(* state, static teardown included.                                        *)
C9_ExternalNeverDestroyed ==
    \A p \in ExtPtrs : extDtor[p] = 0

(* teardown has run while an injected object was held, after the holder    *)
(* had built and destroyed an object of its own                            *)
C9_Witness ==
    /\ exited
    /\ m_pExtern \in ExtPtrs
    /\ lastInject = m_pExtern
    /\ ctorCount = 1 /\ dtorCount = 1
    /\ nOps >= 3

(* C10: Inject(ptr), ptr non-null, on a holder that never constructed      *)
(* completes the once_flag: the Get calls that follow return ptr, and no   *)
(* constructor is invoked while the injection stands.                      *)
C10_InjectBeforeConstruction ==
    /\ []((lastInject # NULLPTR /\ ctorCalls = 0)
            => (onceFlag = "done" /\ m_pExtern = lastInject
                /\ seen \subseteq {lastInject}))
    /\ [][(lastInject # NULLPTR /\ lastInject' = lastInject)
            => ctorCalls' = ctorCalls]_vars

C10_Witness ==
    /\ ctorCalls = 0
    /\ lastInject \in ExtPtrs
    /\ last.op = "Get" /\ last.outcome = "ok" /\ last.ret = lastInject
    /\ seen = {lastInject}

(* C11: when Inject(null) returns, from local or external mode, the holder *)
(* is empty (TryGet would return null), the once_flag is fresh, a prior    *)
(* local object has been destroyed exactly once and no constructor has     *)
(* been invoked by the call; the Get that then returns a local instance    *)
(* leaves exactly one non-raising constructor invocation in the new epoch. *)
C11_InjectNullEmpties ==
    [][\A t \in Threads :
          /\ (SetExternStore(t) /\ arg[t] = NULLPTR)
                => /\ m_pExtern' = NULLPTR
                   /\ InstancePtr(m_pExtern') = NULLPTR
                   /\ buffer' = RawBuffer
                   /\ onceFlag' = "init"
                   /\ epochCalls' = 0
                   /\ dtorCount' = pre.dtor
                                     + (IF pre.mp = LOCAL_INSTANCE_ID THEN 1 ELSE 0)
                   /\ ctorCalls' = pre.ctor
                   /\ \A p \in ExtPtrs : extDtor'[p] = 0
          /\ (GetReturn(t) /\ op[t] = "Get" /\ lastInject = NULLPTR)
                => (m_pExtern = LOCAL_INSTANCE_ID
                    /\ epochCalls = epochThrows + 1)]_vars

(* Get built the object, Inject(null) has just destroyed it *)
C11_Witness ==
    /\ Quiet /\ nOps = 2
    /\ last.op = "Inject" /\ last.arg = NULLPTR /\ last.outcome = "ok"
    /\ m_pExtern = NULLPTR /\ onceFlag = "init"
    /\ ctorCalls = 1 /\ ctorCount = 1 /\ dtorCount = 1

(* C12: a Reset begun in local mode first runs the destructor of the live  *)
(* object, once, and only then invokes the constructor, once: the          *)
(* destructor step is taken before any constructor call of the Reset, the  *)
(* constructor is entered with exactly one destructor run behind it, and   *)
(* the Reset ends with one more destructor run and one more constructor    *)
(* invocation than it began with.                                          *)
C12_ResetDestroysThenConstructs ==
    [][\A t \in Threads :
          (op[t] = "Reset" /\ pre.mp = LOCAL_INSTANCE_ID)
             => /\ EmplaceDestroy(t)
                      => /\ dtorCount = pre.dtor /\ dtorCount' = pre.dtor + 1
                         /\ ctorCalls = pre.ctor /\ buffer.st = "live"
                /\ CtorBegin(t)
                      => /\ dtorCount = pre.dtor + 1
                         /\ ctorCalls = pre.ctor /\ ctorCalls' = pre.ctor + 1
                         /\ buffer = RawBuffer
                /\ (pc[t] # "idle" /\ pc'[t] = "idle")
                      => /\ dtorCount' = pre.dtor + 1
                         /\ ctorCalls' = pre.ctor + 1
                /\ dtorCount' \in {dtorCount, dtorCount + 1}
                /\ ctorCalls' \in {ctorCalls, ctorCalls + 1}]_vars

(* a Reset from local mode is about to return: one destructor run, then    *)
(* one constructor invocation                                              *)
C12_Witness ==
    \E t \in Threads :
        /\ op[t] = "Reset" /\ pc[t] = "ret"
        /\ pre.mp = LOCAL_INSTANCE_ID
        /\ dtorCount = pre.dtor + 1 /\ ctorCalls = pre.ctor + 1
        /\ buffer.st = "live"

(* C13: every local instance is handed out at the same address: a Get or   *)
(* Reset that returns in local mode returns the address of the previous    *)
(* local instance, whether that one was destroyed by this Reset or earlier *)
(* by Inject(null) (or replaced by an injection in between).               *)
C13_LocalAddressFixed ==
    [][\A t \in Threads :
          (GetReturn(t) /\ m_pExtern = LOCAL_INSTANCE_ID)
             => /\ last'.ret # NULLPTR
                /\ localAddr # NULLPTR => last'.ret = localAddr
                /\ (op[t] = "Reset" /\ pre.mp = LOCAL_INSTANCE_ID)
                      => (localAddr # NULLPTR /\ last'.ret = localAddr)]_vars

(* a second local instance has been handed out at the address of the first *)
C13_Witness ==
    /\ Quiet
    /\ last.op \in {"Get", "Reset"} /\ last.outcome = "ok"
    /\ last.ret = localAddr /\ localAddr = BufferAddr
    /\ m_pExtern = LOCAL_INSTANCE_ID
    /\ ctorCount = 2 /\ dtorCount = 1

(* C14: a Reset begun in external mode returns a local instance: the       *)
(* address differs from the injected one, the holder is in local mode, the *)
(* injected object has not been destroyed (nor anything else), and the Get *)
(* that follows returns the address Reset returned.                        *)
C14_ResetFromExternal ==
    [][\A t \in Threads :
          /\ (GetReturn(t) /\ op[t] = "Reset" /\ pre.mp \in ExtPtrs)
                => /\ last'.ret # pre.mp
                   /\ last'.ret = BufferAddr
                   /\ m_pExtern' = LOCAL_INSTANCE_ID /\ buffer'.st = "live"
                   /\ dtorCount' = pre.dtor
                   /\ extDtor'[pre.mp] = 0
          /\ (GetReturn(t) /\ op[t] = "Get" /\ last.op = "Reset" /\ last.outcome = "ok")
                => last'.ret = last.ret]_vars

(* a Reset begun on an injected object is about to return the buffer *)
C14_Witness ==
    \E t \in Threads :
        /\ op[t] = "Reset" /\ pc[t] = "ret"
        /\ pre.mp \in ExtPtrs
        /\ m_pExtern = LOCAL_INSTANCE_ID /\ buffer.st = "live"
        /\ dtorCount = 0

(* C15: the live local object carries the arguments of the call that       *)
(* constructed it: a constructor that returns has built from its caller's  *)
(* arguments, a Reset returns the object built from Reset's arguments, and *)
(* as long as the object lives no Get or TryGet changes what it carries.   *)
C15_InstanceCarriesBuilderArgs ==
    [][\A t \in Threads :
          /\ CtorReturn(t) => buffer' = [st |-> "live", val |-> arg[t]]
          /\ (GetReturn(t) /\ op[t] = "Reset")
                => (buffer = [st |-> "live", val |-> arg[t]]
                    /\ last'.ret = BufferAddr)
          /\ (buffer.st = "live" /\ buffer'.st = "live") => buffer' = buffer]_vars

(* Get, Reset, then a Get whose argument is not the one the object carries *)
C15_Witness ==
    /\ Quiet /\ nOps = 3
    /\ last.op = "Get" /\ last.outcome = "ok" /\ last.ret = BufferAddr
    /\ buffer.st = "live" /\ last.arg # buffer.val
    /\ ctorCount = 2 /\ dtorCount = 1 /\ epochCalls = 1

(* constructor invocations of the current epoch that returned normally *)
EpochConstructions ==
    epochCalls - epochThrows - (IF buffer.st = "constructing" THEN 1 ELSE 0)

(* one step of an operation that thread t is inside of *)
ThreadStep(t) ==
    \/ CallOnce(t) \/ EmplaceDestroy(t) \/ CtorBegin(t) \/ CtorReturn(t)
    \/ CtorThrow(t) \/ EmplaceSetLocal(t) \/ EmplaceCatch(t)
    \/ CallOnceReturn(t) \/ CallOnceThrow(t) \/ GetReturn(t)
    \/ ResetReopen(t) \/ InjectGate(t) \/ SetExternDestroy(t)
    \/ SetExternStore(t)

(* the pc values of a thread that is inside the callable of std::call_once *)
InCallable == {"dtor", "ctor", "ctoring", "setlocal", "catch", "once_ret", "once_exc"}

(* C16 as stated: between two reopenings of the once_flag there is never   *)
(* more than one successful construction or injection, and an epoch whose  *)
(* flag is completed has one.                                              *)
C16_ExactlyOnePerEpoch ==
    /\ EpochConstructions + epochInjects <= 1
    /\ (onceFlag = "done" /\ Quiet) => EpochConstructions + epochInjects = 1

(* C16, amended: per epoch at most one constructor invocation returns      *)
(* normally, whatever the number of non-null injections that follow it     *)
(* without reopening the flag; an epoch whose flag is completed has had at *)
(* least one successful construction or injection.                         *)
C16_AtMostOneConstructionPerEpoch ==
    /\ EpochConstructions \in {0, 1}
    /\ (onceFlag = "done" /\ Quiet) => EpochConstructions + epochInjects >= 1
    /\ (onceFlag = "init" /\ Quiet) => EpochConstructions + epochInjects = 0

(* one epoch holds a construction by Get and an injection after it *)
C16_Witness ==
    /\ Quiet /\ onceFlag = "done"
    /\ EpochConstructions = 1 /\ epochInjects >= 1
    /\ m_pExtern \in ExtPtrs

(* C17: at most one object constructed by the holder is alive, in every    *)
(* state: the objects constructed and not yet destroyed number one when    *)
(* the buffer holds a live object and none otherwise.                      *)
C17_AtMostOneLocalAlive ==
    /\ ctorCount - dtorCount = (IF buffer.st = "live" THEN 1 ELSE 0)
    /\ ctorCount - dtorCount \in {0, 1}

(* inside a Reset from local mode: the old object is gone, the new one is  *)
(* under construction                                                      *)
C17_Witness ==
    \E t \in Threads :
        /\ op[t] = "Reset" /\ pc[t] = "ctoring"
        /\ pre.mp = LOCAL_INSTANCE_ID
        /\ ctorCount >= 1 /\ ctorCount = dtorCount

(* C18: a thread inside an operation that cannot take a step is a Get (or  *)
(* the Get inside Reset) waiting at call_once while another thread is      *)
(* inside the callable; with the flag completed no thread waits; TryGet    *)
(* can always be executed by an idle thread, whatever the other threads do.*)
C18_GetWaitsOnlyForBuilder ==
    /\ \A t \in Threads :
          (pc[t] # "idle" /\ ~ENABLED ThreadStep(t))
             => /\ pc[t] = "call_once" /\ onceFlag = "active"
                /\ \E u \in Threads \ {t} : pc[u] \in InCallable
    /\ onceFlag = "done"
          => \A t \in Threads : pc[t] # "idle" => ENABLED ThreadStep(t)
    /\ \A t \in Threads :
          (pc[t] = "idle" /\ ~exited /\ nOps < MaxOps /\ ~TestOpRunning)
             => ENABLED TryGet(t)

(* a TryGet has completed while one thread constructs and another waits *)
C18_Witness ==
    \E t, u \in Threads :
        /\ pc[t] = "ctoring" /\ pc[u] = "call_once" /\ onceFlag = "active"
        /\ ~ENABLED ThreadStep(u)
        /\ last.op = "TryGet" /\ last.ret = NULLPTR

(* C19: TryGet changes neither the holder's pointer, the buffer, the       *)
(* once_flag nor any constructor or destructor count, and starts no        *)
(* construction, in whatever state it is called.                           *)
C19_TryGetChangesNothing ==
    [][\A t \in Threads :
          TryGet(t) => /\ UNCHANGED <<m_pExtern, buffer, onceFlag>>
                       /\ UNCHANGED <<ctorCalls, ctorCount, dtorCount, extDtor>>
                       /\ UNCHANGED <<epochCalls, pc>>]_vars

(* TryGet has returned an injected object on a holder that never built one *)
C19_Witness ==
    /\ last.op = "TryGet" /\ last.ret \in ExtPtrs
    /\ m_pExtern = last.ret /\ onceFlag = "done"
    /\ ctorCalls = 0 /\ dtorCount = 0

(* C20: static teardown runs the destructor of the buffer's object once    *)
(* when the holder is in local mode and runs no destructor otherwise; an   *)
(* injected object is never destroyed by it and nothing is destroyed after *)
(* it.                                                                     *)
C20_TeardownDestroysLocalOnce ==
    [][/\ Teardown
            => /\ dtorCount' = dtorCount
                                + (IF m_pExtern = LOCAL_INSTANCE_ID THEN 1 ELSE 0)
               /\ m_pExtern = LOCAL_INSTANCE_ID
                     => (buffer.st = "live" /\ buffer' = RawBuffer)
               /\ extDtor' = extDtor
               /\ ctorCalls' = ctorCalls
       /\ exited => (dtorCount' = dtorCount /\ extDtor' = extDtor)]_vars

(* the process has ended in local mode and the one object is destroyed *)
C20_Witness ==
    /\ exited
    /\ m_pExtern = LOCAL_INSTANCE_ID /\ buffer = RawBuffer
    /\ ctorCount = 1 /\ dtorCount = 1 /\ raised = 0

(* what Inject(nullptr) leaves behind, as a function of the state p it was *)
(* called in                                                              *)
AfterInjectNull(p) ==
    [mp   |-> NULLPTR,
     flag |-> "init",
     buf  |-> RawBuffer,
     dtor |-> p.dtor + (IF p.mp = LOCAL_INSTANCE_ID THEN 1 ELSE 0),
     ctor |-> p.ctor]

(* C26: Clear() and Inject(nullptr) are the same operation: Clear can be   *)
(* called exactly when Inject(nullptr) can, it enters Inject with a null   *)
(* argument touching nothing else, and when either of the two returns the  *)
(* holder's pointer, the buffer, the once_flag and the constructor and     *)
(* destructor counts are the same function of the state the call began in. *)
C26_ClearIsInjectNull ==
    [][\A t \in Threads :
          /\ ENABLED ClearCall(t) <=> ENABLED InjectCall(t, NULLPTR)
          /\ ClearCall(t)
                => /\ pc'[t] = "inject" /\ arg'[t] = NULLPTR
                   /\ pre' = [mp |-> m_pExtern, dtor |-> dtorCount, ctor |-> ctorCalls]
                   /\ UNCHANGED <<holder, onceFlag, counts>>
          /\ (SetExternStore(t) /\ (op[t] = "Clear" \/ arg[t] = NULLPTR))
                => /\ arg[t] = NULLPTR
                   /\ [mp |-> m_pExtern', flag |-> onceFlag', buf |-> buffer',
                       dtor |-> dtorCount', ctor |-> ctorCalls']
                         = AfterInjectNull(pre)
                   /\ \A p \in ExtPtrs : extDtor'[p] = 0
                   /\ epochCalls' = 0 /\ epochInjects' = 0]_vars

(* Clear has destroyed the object that Get built *)
C26_Witness ==
    /\ Quiet
    /\ last.op = "Clear" /\ last.outcome = "ok"
    /\ m_pExtern = NULLPTR /\ onceFlag = "init" /\ buffer = RawBuffer
    /\ ctorCount = 1 /\ dtorCount = 1

(* C28: while no call is in progress the once_flag is completed exactly    *)
(* when the holder is not empty; a Get or Reset that returns normally      *)
(* returns a non-null address.                                             *)
C28_GateDoneIffNotEmpty ==
    /\ [](Quiet => (onceFlag = "done" <=> m_pExtern # NULLPTR))
    /\ [](Quiet => onceFlag # "active")
    /\ [][\A t \in Threads :
             GetReturn(t) => (last'.ret # NULLPTR /\ m_pExtern # NULLPTR)]_vars

(* a Reset on an injected object has failed: empty holder, fresh flag *)
C28_Witness ==
    /\ Quiet
    /\ last.op = "Reset" /\ last.outcome = "threw"
    /\ m_pExtern = NULLPTR /\ onceFlag = "init"
    /\ ctorCalls = 1 /\ ctorCount = 0 /\ dtorCount = 0

(* C29: while no call is in progress and the process has not ended, the    *)
(* constructions completed by the holder minus the destructor runs on them *)
(* number 1 in local mode and 0 otherwise; a destructor runs only on a     *)
(* buffer that holds a live object; at the end of the process every object *)
(* the holder constructed has been destroyed.                              *)
C29_LiveCountMatchesMode ==
    /\ []((Quiet /\ ~exited)
            => ctorCount - dtorCount
                  = (IF m_pExtern = LOCAL_INSTANCE_ID THEN 1 ELSE 0))
    /\ [](exited => ctorCount = dtorCount)
    /\ [][dtorCount' # dtorCount
             => (dtorCount' = dtorCount + 1 /\ buffer.st = "live"
                 /\ buffer' = RawBuffer)]_vars

(* after a failed Reset in local mode: the old object destroyed once, none *)
(* alive, holder empty                                                     *)
C29_Witness ==
    /\ Quiet /\ ~exited
    /\ last.op = "Reset" /\ last.outcome = "threw"
    /\ m_pExtern = NULLPTR /\ buffer = RawBuffer
    /\ ctorCount = 1 /\ dtorCount = 1 /\ ctorCalls = 2

C21_UnloadReverseOrder ==
    (ltPhase = "unloaded" /\ ~reReg)
       => /\ walkLog = Reverse(SelectSeq(regOrder, LAMBDA T : T \in atExit))
          /\ atExit = Range(regOrder) => walkLog = Reverse(regOrder)
          /\ Chain(stack, NTypes) = Range(regOrder)

(* all types were constructed, one after the other, and destroyed at       *)
(* unload in the reverse order                                             *)
C21_Witness ==
    /\ ltPhase = "unloaded" /\ ~reReg
    /\ Len(regOrder) = NTypes /\ atExit = Types
    /\ walkLog = Reverse(regOrder) /\ heap = {}

(* C22: no delete is ever applied to an instance already deleted; the walk *)
(* invokes the callback of an entry only when its instance is allocated,   *)
(* and passes over an entry whose instance was destroyed before by Reset   *)
(* or Inject (m_isValid false) without touching anything.                  *)
C22_NoDoubleDestruction ==
    /\ [](~doubleFree)
    /\ [](\A T \in Types :
             g_entry[T].m_isValid <=> (g_pInternal[T] # NULLPTR /\ g_pInternal[T] \in heap))
    /\ [][LtWalkStep
             => /\ walkLog' # walkLog
                      => (g_pInternal[walkEntry] \in heap
                          /\ heap' = heap \ {g_pInternal[walkEntry]}
                          /\ walkEntry \notin Range(walkLog))
                /\ g_pInternal[walkEntry] \notin heap
                      => (walkLog' = walkLog /\ heap' = heap)]_vars

(* an instance was constructed and destroyed early; the walk met its entry *)
(* and invoked nothing                                                     *)
C22_Witness ==
    /\ ltPhase = "unloaded"
    /\ stack # NULLPTR /\ regOrder # <<>>
    /\ atExit = {} /\ walkLog = <<>>
    /\ heap = {} /\ ~doubleFree

(* C23 as stated: static teardown destroys no instance, every type whose   *)
(* local instance is alive has its entry on the chain that starts at the   *)
(* head of the registry, and the finished walk has destroyed each instance *)
(* alive at the end of the process exactly once.                           *)
C23_LiveInstancesDestroyedAtUnload ==
    /\ ltPhase = "static_done" => atExit = LtAlive
    /\ LtAlive \subseteq Chain(stack, NTypes)
    /\ ltPhase = "unloaded"
          => (heap = {} /\ Range(walkLog) = atExit /\ Len(walkLog) = Cardinality(atExit))

(* C24 as stated: a Reset called in local mode that returns normally       *)
(* returns the address the instance had before.                            *)
C24_LtAddressStableAcrossReset ==
    [][\A T \in Types :
          (LtReset(T, FALSE) /\ lt_pExtern[T] = LOCAL_INSTANCE_ID
                             /\ g_pInternal[T] # NULLPTR)
             => ltRet' = g_pInternal[T]]_vars

(* C25 as stated: a Get or Reset whose constructor raises leaves the       *)
(* holder empty: m_pExtern null, TryGet null, entry not valid, flag fresh. *)
C25_LtThrowRollsBack ==
    [][\A T \in Types :
          (LtGet(T, TRUE) \/ LtReset(T, TRUE))
             => /\ lt_pExtern'[T] = NULLPTR
                /\ (IF lt_pExtern'[T] = LOCAL_INSTANCE_ID
                       THEN g_pInternal'[T] ELSE lt_pExtern'[T]) = NULLPTR
                /\ ~g_entry'[T].m_isValid
                /\ lt_onceFlag'[T] = "init"]_vars

(* C27 as stated: the chain that starts at the head of the registry ends   *)
(* in nullptr, so that the unload walk terminates.                         *)
C27_RegistryAcyclic ==
    ChainEnds(stack, NTypes)

(* ------------------ default variant, continued ------------------------- *)

(* the holder's mode, from m_pExtern *)
Mode(mp) ==
    IF mp = NULLPTR THEN "Empty"
    ELSE IF mp = LOCAL_INSTANCE_ID THEN "Local" ELSE "External"

(* C33 as stated: the mode changes only from Empty to Local by Get, from   *)
(* Empty to External by Inject(ptr), from Local or External to Local by    *)
(* Reset, and from Local or External to Empty by Inject(null).             *)
C33_OnlyStatedTransitions ==
    [][Mode(m_pExtern') # Mode(m_pExtern)
          => \E t \in Threads :
                /\ pc'[t] # pc[t]
                /\ LET from == Mode(m_pExtern)
                       to   == Mode(m_pExtern')
                   IN \/ from = "Empty" /\ to = "Local" /\ op[t] = "Get"
                      \/ from = "Empty" /\ to = "External"
                            /\ op[t] = "Inject" /\ arg[t] # NULLPTR
                      \/ from \in {"Local", "External"} /\ to = "Local"
                            /\ op[t] = "Reset"
                      \/ from \in {"Local", "External"} /\ to = "Empty"
                            /\ op[t] \in {"Inject", "Clear"} /\ arg[t] = NULLPTR]_vars

(* C33, amended: the mode changes only from Empty to Local by Get; from    *)
(* Empty or External to Local by Reset, or to Empty by a Reset whose       *)
(* constructor raises; from any mode to External by Inject(ptr); from      *)
(* Local or External to Empty by Inject(null) or Clear.  Each call ends in *)
(* the mode its transition names and TryGet changes nothing.               *)
C33_ModeTransitions ==
    [][/\ Mode(m_pExtern') # Mode(m_pExtern)
            => \E t \in Threads :
                  /\ pc'[t] # pc[t]
                  /\ LET from == Mode(m_pExtern)
                         to   == Mode(m_pExtern')
                     IN \/ from = "Empty" /\ to = "Local" /\ op[t] = "Get"
                        \/ from \in {"Empty", "External"} /\ to = "Local"
                              /\ op[t] = "Reset"
                        \/ from \in {"Local", "External"} /\ to = "Empty"
                              /\ op[t] = "Reset" /\ EmplaceCatch(t)
                        \/ to = "External" /\ op[t] = "Inject"
                              /\ arg[t] # NULLPTR /\ m_pExtern' = arg[t]
                        \/ from \in {"Local", "External"} /\ to = "Empty"
                              /\ op[t] \in {"Inject", "Clear"} /\ arg[t] = NULLPTR
       /\ \A t \in Threads :
             /\ GetReturn(t)
                   => /\ Mode(m_pExtern') \in {"Local", "External"}
                      /\ op[t] = "Reset" => Mode(m_pExtern') = "Local"
             /\ CallOnceThrow(t) => Mode(m_pExtern') = "Empty"
             /\ SetExternStore(t)
                   => Mode(m_pExtern')
                         = (IF arg[t] = NULLPTR THEN "Empty" ELSE "External")
             /\ TryGet(t) => m_pExtern' = m_pExtern]_vars

(* Inject(ptr) has moved the holder from Local to External *)
C33_Witness ==
    /\ Quiet /\ nOps = 2
    /\ last.op = "Inject" /\ last.arg \in ExtPtrs
    /\ Mode(m_pExtern) = "External"
    /\ ctorCount = 1 /\ dtorCount = 1

(* C34: an Inject(p), p non-null, on a holder that already holds p changes *)
(* nothing: at every step of the call the holder's pointer, the buffer,    *)
(* the once_flag and all constructor and destructor counts stay as they    *)
(* are, so that two calls leave what one leaves; the Get that follows an   *)
(* injection returns the injected pointer.                                 *)
C34_InjectIdempotent ==
    [][\A t \in Threads :
          /\ (op[t] = "Inject" /\ arg[t] # NULLPTR /\ pre.mp = arg[t]
                /\ pc'[t] # pc[t])
                => /\ UNCHANGED <<m_pExtern, buffer, onceFlag>>
                   /\ UNCHANGED <<ctorCalls, ctorCount, dtorCount, extDtor>>
                   /\ m_pExtern = arg[t] /\ onceFlag = "done"
          /\ (InjectCall(t, m_pExtern) /\ m_pExtern \in ExtPtrs)
                => onceFlag = "done"
          /\ (GetReturn(t) /\ op[t] = "Get" /\ lastInject \in ExtPtrs)
                => (last'.ret = lastInject /\ m_pExtern = lastInject)]_vars

(* the second Inject(p) is about to return *)
C34_Witness ==
    \E t \in Threads :
        /\ op[t] = "Inject" /\ pc[t] = "setext"
        /\ arg[t] \in ExtPtrs /\ pre.mp = arg[t] /\ m_pExtern = arg[t]
        /\ onceFlag = "done" /\ epochInjects >= 1

(* the steps of a Get call after its entry, singleton.hpp 45-50 and 91-105 *)
GetStep(t) ==
    \/ CallOnce(t) \/ EmplaceDestroy(t) \/ CtorBegin(t) \/ CtorReturn(t)
    \/ CtorThrow(t) \/ EmplaceSetLocal(t) \/ EmplaceCatch(t)
    \/ CallOnceReturn(t) \/ CallOnceThrow(t) \/ GetReturn(t)

(* N threads that call Get (and TryGet) concurrently, no test code         *)
NextGet ==
    \/ \E t \in Threads, a \in CtorArgs : GetCall(t, a)
    \/ \E t \in Threads : GetStep(t)
    \/ \E t \in Threads : TryGet(t)
    \/ \E t \in Threads : TryGetRace(t)
    \/ Teardown

(* fair scheduling: a thread inside Get that can take its next step        *)
(* eventually takes it; the constructor is one of these steps, it returns  *)
(* or raises.  A thread blocked in std::call_once has no step to take.     *)
Fairness == \A t \in Threads : WF_vars(GetStep(t))

SpecFair == Init /\ [][NextGet]_vars /\ Fairness

(* C31: under fair scheduling, with a constructor that returns or raises,  *)
(* every Get call that has begun eventually ends, by returning or by       *)
(* raising; no caller stays blocked in call_once forever.                  *)
C31_GetEventuallyReturns ==
    \A t \in Threads : (op[t] = "Get") ~> (pc[t] = "idle")

(* a Get has returned the object although an earlier constructor run of    *)
(* the same construction round raised: the flag was released and a later   *)
(* caller built the object                                                 *)
C31_Witness ==
    /\ last.op = "Get" /\ last.outcome = "ok" /\ last.ret = BufferAddr
    /\ epochThrows >= 1 /\ raised >= 1
    /\ \A t \in Threads : pc[t] = "idle"

(* C32: when first Get calls on distinct load-time types register their    *)
(* entries concurrently, no entry is lost under any interleaving of the    *)
(* load, the m_next write and the compare-exchange: the entries whose push *)
(* has succeeded are exactly those met by following m_next from the head,  *)
(* the chain ends at nullptr, so each is met once; and the unload walk     *)
(* runs the delete function of each of them once.                          *)
C32_PushLosesNoEntry ==
    /\ Chain(stack, NTypes) = Pushed
    /\ ChainEnds(stack, NTypes)
    /\ RegQuiet => Pushed = {T \in Types : regPc[T] = "done"}
    /\ ltPhase = "unloaded" =>
           /\ Range(walkLog) = Pushed
           /\ Len(walkLog) = Cardinality(Pushed)
           /\ walkLog = Reverse(regOrder)

(* every type has registered, and some compare-exchange failed because     *)
(* another thread had pushed between the load and the exchange             *)
C32_Witness ==
    /\ casFailed
    /\ \A T \in Types : regPc[T] = "done"
    /\ Cardinality(Chain(stack, NTypes)) = NTypes

====
